---- MODULE Spec2Model ----
(***************************************************************************)
(* Model of the line_adjustment crate (src/src/lib.rs): transform() and    *)
(* its helpers fit_strs(), gaps() and split_manually().                    *)
(*                                                                         *)
(* A string is a sequence of codepoints.  Every codepoint is a one-letter  *)
(* TLA+ string; "Z" stands for a codepoint whose UTF-8 encoding takes two  *)
(* bytes (a Cyrillic letter, say), every other codepoint takes one byte.   *)
(* Byte offsets are kept apart from codepoint counts, as in the source.    *)
(***************************************************************************)
EXTENDS Integers, Sequences, FiniteSets, TLC

\* Bounds of the model: longest input (in codepoints) and widest line.
MaxLen == 7
MaxWidth == 8
\* longest input of the specification with fairness
MaxLiveLen == 5

SPACE_STR == " "
NEWLINE_STR == "\n"
ONE_SPACE == 1

\* Codepoints an input is drawn from.
Chars == {"a", "Z", SPACE_STR, NEWLINE_STR}

Inputs == UNION {[1..n -> Chars] : n \in 0..MaxLen}

Min(a, b) == IF a <= b THEN a ELSE b

\* char::len_utf8
len_utf8(c) == IF c = "Z" THEN 2 ELSE 1

\* char::is_whitespace, as str::split_whitespace uses it
is_whitespace(c) == c \in {" ", "\n", "\t"}

\* str::repeat of a one-codepoint string
repeat(c, n) == [i \in 1..n |-> c]

\* str::len: the length in bytes
RECURSIVE byte_len(_)
byte_len(s) == IF s = <<>> THEN 0 ELSE len_utf8(Head(s)) + byte_len(Tail(s))

\* byte offset at which the codepoint of 0-based index k starts (char_indices)
byte_offset(s, k) == byte_len(SubSeq(s, 1, k))

\* str::is_char_boundary: slicing anywhere else panics
is_char_boundary(s, b) == \E k \in 0..Len(s) : byte_offset(s, k) = b

chars_before(s, b) == CHOOSE k \in 0..Len(s) : byte_offset(s, k) = b

\* &s[b..]
slice_from(s, b) == SubSeq(s, chars_before(s, b) + 1, Len(s))

\* &s[..b]
slice_to(s, b) == SubSeq(s, 1, chars_before(s, b))

\* index of the first whitespace codepoint of s, Len(s) + 1 when there is none
token_end(s) ==
    IF \E i \in 1..Len(s) : is_whitespace(s[i])
    THEN CHOOSE i \in 1..Len(s) :
            /\ is_whitespace(s[i])
            /\ \A j \in 1..(i - 1) : ~is_whitespace(s[j])
    ELSE Len(s) + 1

\* str::split_whitespace: the maximal runs of non-whitespace, in order
RECURSIVE split_whitespace(_)
split_whitespace(s) ==
    IF s = <<>> THEN <<>>
    ELSE IF is_whitespace(Head(s)) THEN split_whitespace(Tail(s))
    ELSE <<SubSeq(s, 1, token_end(s) - 1)>>
            \o split_whitespace(SubSeq(s, token_end(s), Len(s)))

\* str::lines, as the test equal_length_lines reads the result
RECURSIVE lines(_)
lines(s) ==
    IF s = <<>> THEN <<>>
    ELSE IF \E i \in 1..Len(s) : s[i] = NEWLINE_STR
    THEN LET n == CHOOSE i \in 1..Len(s) :
                    /\ s[i] = NEWLINE_STR
                    /\ \A j \in 1..(i - 1) : s[j] # NEWLINE_STR
         IN  <<SubSeq(s, 1, n - 1)>> \o lines(SubSeq(s, n + 1, Len(s)))
    ELSE <<s>>

\* fit_strs with a condition that forgets the length of the peeked token
fits_mut(chk, s, max_line_width) == chk <= max_line_width

\* the condition of next_if in fit_strs
fits(chk, s, max_line_width) == chk + Len(s) <= max_line_width

\* fit_strs that does not count the space before the next word
next_chk_len_mut(chk, chars_count) == chk + chars_count

\* chk_len after a token was accepted
next_chk_len(chk, chars_count) == chk + chars_count + ONE_SPACE

\* gaps(): the body and tail gap of a line of n_tokens >= 1 tokens
gaps(n_tokens, total, width) ==
    IF n_tokens = 0 THEN [body_gaps_size |-> 0, tail_gap_size |-> 0]
    ELSE IF n_tokens = 1
    THEN [body_gaps_size |-> 0, tail_gap_size |-> width - total]
    ELSE LET n_gaps == n_tokens - 1
             free_space == width - total
             remainder == free_space % n_gaps
             div == IF n_gaps > 1 /\ remainder > 0 THEN n_gaps - 1 ELSE n_gaps
             max_gap == (free_space - remainder) \div div
             last_gap == IF remainder > 0 THEN remainder ELSE max_gap
         IN  [body_gaps_size |-> max_gap, tail_gap_size |-> last_gap]

\* transform with next_idx <= n_gaps as the test of a body gap
spaces_after_mut(idx, len, gaps_info) ==
    LET n_gaps == len - 1
        next_idx == idx + 1
    IN  IF next_idx <= n_gaps THEN gaps_info.body_gaps_size
        ELSE IF len = 1 THEN gaps_info.tail_gap_size
        ELSE 0

\* the spaces transform writes after the token of 0-based index idx
spaces_after(idx, len, gaps_info) ==
    LET n_gaps == len - 1
        next_idx == idx + 1
    IN  IF next_idx < n_gaps THEN gaps_info.body_gaps_size
        ELSE IF next_idx = n_gaps \/ len = 1 THEN gaps_info.tail_gap_size
        ELSE 0

\* the for loop of transform over the fitted tokens, from index idx on
RECURSIVE render_from(_, _, _)
render_from(l, idx, gaps_info) ==
    IF idx >= Len(l) THEN <<>>
    ELSE l[idx + 1]
            \o repeat(SPACE_STR, spaces_after(idx, Len(l), gaps_info))
            \o render_from(l, idx + 1, gaps_info)

\* transform with a for loop that starts at the second token
render_line_mut(l, gaps_info) == render_from(l, 1, gaps_info)

render_line(l, gaps_info) == render_from(l, 0, gaps_info)

\* split_manually without take(line_width)
chunk_chars_mut(tail, width) == Len(tail)

\* split_manually: number of codepoints of the next chunk
chunk_chars(tail, width) == Min(Len(tail), width)

\* split_manually that takes every codepoint for one byte
chunk_bytes_mut(tail, rest, available_chars) ==
    LET available == byte_offset(tail, available_chars - 1)
    IN  Min(rest, available + 1)

\* split_manually: number of bytes of the next chunk
chunk_bytes(tail, rest, available_chars) ==
    LET available == byte_offset(tail, available_chars - 1)
        chr == tail[available_chars]
    IN  Min(rest, available + len_utf8(chr))

\* split_manually: the padding after a chunk
chunk_padding(available_chars, width) ==
    IF available_chars < width
    THEN repeat(SPACE_STR, width - available_chars)
    ELSE <<>>

VARIABLES
    input,              \* transform's argument input
    line_width,         \* transform's argument line_width
    pc,                 \* where transform is
    peekable,           \* the tokens not consumed yet
    result,             \* transform's output buffer
    need_newline,       \* transform's flag
    list,               \* fit_strs: the accepted tokens
    total_len,          \* fit_strs: codepoints accepted
    chk_len,            \* fit_strs: total_len plus one space per token
    gaps_info,          \* the gaps of the line rendered last
    elapsed,            \* split_manually: bytes of the token written
    split_result,       \* split_manually: its output buffer
    split_need_newline  \* split_manually: its flag

vars == <<input, line_width, pc, peekable, result, need_newline, list,
          total_len, chk_len, gaps_info, elapsed, split_result,
          split_need_newline>>

NoGaps == [body_gaps_size |-> 0, tail_gap_size |-> 0]

Init ==
    /\ input \in Inputs
    /\ line_width \in 0..MaxWidth
    /\ pc = "entry"
    /\ peekable = <<>>
    /\ result = <<>>
    /\ need_newline = FALSE
    /\ list = <<>>
    /\ total_len = 0
    /\ chk_len = 0
    /\ gaps_info = NoGaps
    /\ elapsed = 0
    /\ split_result = <<>>
    /\ split_need_newline = FALSE

\* transform, up to the loop: the empty input returns at once
Enter ==
    /\ pc = "entry"
    /\ IF Len(input) = 0
       THEN /\ pc' = "done"
            /\ UNCHANGED peekable
       ELSE /\ pc' = "loop"
            /\ peekable' = split_whitespace(input)
    /\ UNCHANGED <<input, line_width, result, need_newline, list, total_len,
                   chk_len, gaps_info, elapsed, split_result,
                   split_need_newline>>

\* transform with a loop that tests for a token at its end only
LoopHead_mut ==
    /\ pc = "loop"
    /\ pc' = "fit"
    /\ list' = <<>>
    /\ total_len' = 0
    /\ chk_len' = 0
    /\ UNCHANGED <<input, line_width, peekable, result, need_newline,
                   gaps_info, elapsed, split_result, split_need_newline>>

\* the head of transform's loop; a token left means a call of fit_strs
LoopHead ==
    /\ pc = "loop"
    /\ IF peekable = <<>>
       THEN /\ pc' = "done"
            /\ UNCHANGED <<list, total_len, chk_len>>
       ELSE /\ pc' = "fit"
            /\ list' = <<>>
            /\ total_len' = 0
            /\ chk_len' = 0
    /\ UNCHANGED <<input, line_width, peekable, result, need_newline,
                   gaps_info, elapsed, split_result, split_need_newline>>

\* one pass of fit_strs's loop: the next token fits and is consumed
FitStep ==
    /\ pc = "fit"
    /\ peekable # <<>>
    /\ fits(chk_len, Head(peekable), line_width)
    /\ total_len' = total_len + Len(Head(peekable))
    /\ chk_len' = next_chk_len(chk_len, Len(Head(peekable)))
    /\ list' = Append(list, Head(peekable))
    /\ peekable' = Tail(peekable)
    /\ UNCHANGED <<input, line_width, pc, result, need_newline, gaps_info,
                   elapsed, split_result, split_need_newline>>

\* fit_strs returns; transform writes the newline and picks its branch
FitReturn ==
    /\ pc = "fit"
    /\ ~(peekable # <<>> /\ fits(chk_len, Head(peekable), line_width))
    /\ result' = IF need_newline THEN Append(result, NEWLINE_STR) ELSE result
    /\ IF Len(list) # 0
       THEN /\ pc' = "render"
            /\ UNCHANGED <<elapsed, split_result, split_need_newline>>
       ELSE /\ pc' = IF peekable = <<>> THEN "panic" ELSE "split"
            /\ elapsed' = 0
            /\ split_result' = <<>>
            /\ split_need_newline' = FALSE
    /\ UNCHANGED <<input, line_width, peekable, need_newline, list, total_len,
                   chk_len, gaps_info>>

\* the fitted branch: gaps() and the for loop over the accepted tokens;
\* line_width - total_len below zero is an overflow of usize
Render ==
    /\ pc = "render"
    /\ IF total_len > line_width
       THEN /\ pc' = "panic"
            /\ UNCHANGED <<result, need_newline, gaps_info>>
       ELSE /\ gaps_info' = gaps(Len(list), total_len, line_width)
            /\ result' = result \o render_line(list, gaps_info')
            /\ need_newline' = TRUE
            /\ pc' = "loop"
    /\ UNCHANGED <<input, line_width, peekable, list, total_len, chk_len,
                   elapsed, split_result, split_need_newline>>

\* one pass of split_manually's loop over the peeked token.  A slice off a
\* codepoint boundary panics.  With available_chars = 0 (line_width = 0) the
\* subtraction available_chars - 1 panics where overflow is checked and
\* wraps where it is not, and then nth() finds no codepoint and expect()
\* panics: a panic in either build.
SplitStep ==
    /\ pc = "split"
    /\ LET unfitted_str == Head(peekable)
           str_len == byte_len(unfitted_str)
       IN  /\ elapsed # str_len
           /\ IF ~is_char_boundary(unfitted_str, elapsed)
              THEN /\ pc' = "panic"
                   /\ UNCHANGED <<elapsed, split_result, split_need_newline>>
              ELSE LET tail == slice_from(unfitted_str, elapsed)
                       available_chars == chunk_chars(tail, line_width)
                   IN  IF available_chars = 0
                       THEN /\ pc' = "panic"
                            /\ UNCHANGED <<elapsed, split_result,
                                           split_need_newline>>
                       ELSE LET to_append_len ==
                                    chunk_bytes(tail, str_len - elapsed,
                                                available_chars)
                            IN  IF ~is_char_boundary(tail, to_append_len)
                                THEN /\ pc' = "panic"
                                     /\ UNCHANGED <<elapsed, split_result,
                                                    split_need_newline>>
                                ELSE /\ split_result' =
                                            (IF split_need_newline
                                             THEN Append(split_result, NEWLINE_STR)
                                             ELSE split_result)
                                            \o slice_to(tail, to_append_len)
                                            \o chunk_padding(available_chars,
                                                             line_width)
                                     /\ elapsed' = elapsed + to_append_len
                                     /\ split_need_newline' = TRUE
                                     /\ pc' = "split"
    /\ UNCHANGED <<input, line_width, peekable, result, need_newline, list,
                   total_len, chk_len, gaps_info>>

\* transform without the peekable.next() after split_manually
SplitReturn_mut ==
    /\ pc = "split"
    /\ elapsed = byte_len(Head(peekable))
    /\ result' = result \o split_result
    /\ need_newline' = TRUE
    /\ pc' = "loop"
    /\ UNCHANGED <<input, line_width, peekable, list, total_len, chk_len,
                   gaps_info, elapsed, split_result, split_need_newline>>

\* split_manually returns; transform appends its lines and drops the token
SplitReturn ==
    /\ pc = "split"
    /\ elapsed = byte_len(Head(peekable))
    /\ result' = result \o split_result
    /\ peekable' = Tail(peekable)
    /\ need_newline' = TRUE
    /\ pc' = "loop"
    /\ UNCHANGED <<input, line_width, list, total_len, chk_len, gaps_info,
                   elapsed, split_result, split_need_newline>>

Next ==
    \/ Enter
    \/ LoopHead
    \/ FitStep
    \/ FitReturn
    \/ Render
    \/ SplitStep
    \/ SplitReturn

Spec == Init /\ [][Next]_vars

\* The same program on inputs of at most MaxLiveLen codepoints.  transform is
\* one sequential call: a step that can be taken is taken.
LiveInit == Init /\ Len(input) <= MaxLiveLen

LiveSpec == LiveInit /\ [][Next]_vars /\ WF_vars(Next)

(***************************************************************************)
(* Vocabulary of the properties                                            *)
(***************************************************************************)

\* the tokens of the input, as transform sees them
AllTokens == split_whitespace(input)

NonWhitespace(c) == ~is_whitespace(c)

NotSpaceOrNewline(c) == c # SPACE_STR /\ c # NEWLINE_STR

RECURSIVE SumLen(_)
SumLen(l) == IF l = <<>> THEN 0 ELSE Len(Head(l)) + SumLen(Tail(l))

Suffix(s, n) == SubSeq(s, Len(s) - n + 1, Len(s))

CeilDiv(a, b) == (a + b - 1) \div b

\* the lines an oversized token t is to be written as, for width w >= 1
ExpectedChunks(t, w) ==
    [i \in 1..CeilDiv(Len(t), w) |->
        LET last == Min(i * w, Len(t))
            chunk == SubSeq(t, (i - 1) * w + 1, last)
        IN  chunk \o repeat(SPACE_STR, w - Len(chunk))]

\* number of leading codepoints of s that are (isSpace) or are not spaces
LeadRun(s, isSpace) ==
    CHOOSE k \in 0..Len(s) :
        /\ \A i \in 1..k : (s[i] = SPACE_STR) = isSpace
        /\ k < Len(s) => (s[k + 1] = SPACE_STR) # isSpace

\* a line read back as its words, each with the number of spaces after it
RECURSIVE ParseLine(_)
ParseLine(s) ==
    IF s = <<>> THEN <<>>
    ELSE LET w == LeadRun(s, FALSE)
             rest == SubSeq(s, w + 1, Len(s))
             sp == LeadRun(rest, TRUE)
         IN  <<[word |-> SubSeq(s, 1, w), spaces |-> sp]>>
                \o ParseLine(SubSeq(rest, sp + 1, Len(rest)))

LastLine == lines(result)[Len(lines(result))]

\* transform has just rendered a fitted line / just written a split token
AfterRender == pc = "loop" /\ list # <<>>
AfterSplit == pc = "loop" /\ list = <<>> /\ need_newline

\* fit_strs has just returned
AfterFit == pc \in {"render", "split"}

\* j tokens of l, one space between neighbours, fit in width w
PrefixFits(l, j, w) == j = 0 \/ SumLen(SubSeq(l, 1, j)) + (j - 1) <= w

(***************************************************************************)
(* Properties                                                              *)
(***************************************************************************)

\* C1: for a non-empty input and line_width >= 1, every line of the output
\* of transform has exactly line_width codepoints.
C1_WidthInvariant ==
    (pc = "done" /\ input # <<>> /\ line_width >= 1)
        => \A i \in 1..Len(lines(result)) : Len(lines(result)[i]) = line_width

\* C2: for line_width >= 1, the output of transform without its spaces and
\* newlines is the input without its whitespace: the codepoints of the
\* tokens, all of them, once each, in the original order.
C2_WordPreservation ==
    (pc = "done" /\ line_width >= 1)
        => SelectSeq(result, NotSpaceOrNewline) = SelectSeq(input, NonWhitespace)

C2_Witness ==
    /\ pc = "done"
    /\ line_width >= 1
    /\ Len(AllTokens) >= 3
    /\ \E i \in 1..Len(AllTokens) : Len(AllTokens[i]) > line_width
    /\ \E i \in 1..Len(input) : input[i] = NEWLINE_STR
    /\ \E i \in 1..Len(input) : input[i] = "Z"

C4_EmptyInput ==
    (\A i \in 1..Len(input) : is_whitespace(input[i])) =>
        /\ result = <<>>
        /\ pc \in {"entry", "loop", "done"}

C4_Witness ==
    /\ pc = "done"
    /\ input # <<>>
    /\ AllTokens = <<>>
    /\ line_width = 0
    /\ result = <<>>

\* C5 as stated: a call with line_width = 0 and a non-empty input never
\* returns an output string.
C5_RejectsZeroWidth ==
    ~(pc = "done" /\ line_width = 0 /\ input # <<>>)

\* C5 as amended: transform does not validate line_width.  With
\* line_width = 0 an input that holds a token never returns and never
\* reaches gaps(): the first pass of split_manually fails before anything
\* is written; an input of whitespace only returns the empty string.
C5_ZeroWidthOutcome ==
    line_width = 0 =>
        /\ result = <<>>
        /\ split_result = <<>>
        /\ pc # "render"
        /\ AllTokens # <<>> => pc # "done"
        /\ AllTokens = <<>> => pc # "panic"
        /\ pc = "split" => elapsed = 0
        /\ pc = "panic" => (list = <<>> /\ peekable = AllTokens)

C5_Witness ==
    /\ pc = "panic"
    /\ line_width = 0
    /\ Len(AllTokens) >= 2

\* C6: gaps(n, total_len, line_width) with n >= 2 and
\* line_width >= total_len + (n - 1) returns (body, tail) with
\* body * (n - 2) + tail + total_len = line_width; with n = 1 it returns
\* (0, line_width - total_len).
C6_GapInvariant ==
    AfterRender =>
        /\ gaps_info = gaps(Len(list), total_len, line_width)
        /\ Len(list) >= 2 =>
              gaps_info.body_gaps_size * (Len(list) - 2)
                + gaps_info.tail_gap_size + total_len = line_width
        /\ Len(list) = 1 =>
              /\ gaps_info.body_gaps_size = 0
              /\ gaps_info.tail_gap_size = line_width - total_len

\* C7: fit_strs accepts exactly the longest prefix of the remaining tokens
\* whose codepoints plus one separator per pair fit in max_width; it
\* consumes the accepted tokens only and leaves the others in order;
\* total_len is the codepoint sum of the accepted tokens; the batch is empty
\* exactly when the first remaining token alone is longer than max_width.
C7_GreedyFit ==
    AfterFit =>
        LET all == list \o peekable
            k == Len(list)
        IN  /\ all = Suffix(AllTokens, Len(all))
            /\ total_len = SumLen(list)
            /\ PrefixFits(all, k, line_width)
            /\ \A j \in (k + 1)..Len(all) : ~PrefixFits(all, j, line_width)
            /\ (k = 0) = (all = <<>> \/ Len(all[1]) > line_width)

C7_Witness ==
    /\ pc = "render"
    /\ Len(list) >= 2
    /\ peekable # <<>>
    /\ Len(Head(peekable)) <= line_width
    /\ total_len + (Len(list) - 1) < line_width

\* C8 as stated: on a fitted line of n tokens every token of index < n-2 is
\* followed by body spaces, and the tokens of index n-2 and n-1 (the last
\* one) are followed by tail spaces each.
C8_RenderingRule ==
    AfterRender =>
        LET n == Len(list)
        IN  ParseLine(LastLine) =
                [i \in 1..n |->
                    [word |-> list[i],
                     spaces |-> IF i - 1 < n - 2
                                THEN gaps_info.body_gaps_size
                                ELSE gaps_info.tail_gap_size]]

\* C8 as amended: every token of index < n-2 is followed by body spaces and
\* the token of index n-2 by tail spaces; the last token is followed by
\* tail spaces when n = 1 and by nothing when n >= 2.
C8_RenderingRuleAmended ==
    AfterRender =>
        LET n == Len(list)
        IN  ParseLine(LastLine) =
                [i \in 1..n |->
                    [word |-> list[i],
                     spaces |-> IF i - 1 < n - 2
                                THEN gaps_info.body_gaps_size
                                ELSE IF i - 1 = n - 2 \/ n = 1
                                THEN gaps_info.tail_gap_size
                                ELSE 0]]

C8_Witness ==
    /\ AfterRender
    /\ Len(list) >= 3
    /\ gaps_info.body_gaps_size # gaps_info.tail_gap_size

\* one step of transform makes progress
StepProgress ==
    line_width >= 1 =>
        /\ pc' # "panic"
        /\ (pc = "fit" /\ pc' = "fit")
                => (peekable' = Tail(peekable) /\ Len(list') = Len(list) + 1)
        /\ (pc = "render" /\ pc' = "loop")
                => (/\ Len(list) >= 1
                    /\ list \o peekable
                         = Suffix(AllTokens, Len(list) + Len(peekable))
                    /\ peekable' = peekable)
        /\ (pc = "split" /\ pc' = "split") => elapsed' > elapsed
        /\ (pc = "split" /\ pc' = "loop") => peekable' = Tail(peekable)
        /\ Len(peekable') <= Len(peekable) \/ pc = "entry"

\* C9: for line_width >= 1 every pass of fit_strs's loop consumes a token,
\* a fitted iteration has consumed its whole non-empty batch, every pass of
\* the splitter's loop advances through the token, a split iteration
\* consumes exactly the split token, and transform reaches the end of the
\* tokens and returns.
C9_Progress ==
    /\ [][StepProgress]_vars
    /\ (line_width >= 1) => <>(pc = "done" /\ peekable = <<>>)

C9_Witness ==
    /\ pc = "done"
    /\ line_width >= 1
    /\ Len(AllTokens) >= 2
    /\ \E i \in 1..Len(AllTokens) : Len(AllTokens[i]) > 2 * line_width
    /\ \E i \in 1..Len(AllTokens) : Len(AllTokens[i]) <= line_width

\* C10: for line_width >= 1 no line of the output is longer than
\* line_width; a batch handed to gaps() has
\* total_len + (count - 1) <= line_width, so line_width - total_len does not
\* underflow, and the gaps written on the line take at most
\* line_width - total_len.
C10_UpperBound ==
    line_width >= 1 =>
        /\ pc # "panic"
        /\ \A i \in 1..Len(lines(result)) : Len(lines(result)[i]) <= line_width
        /\ \A i \in 1..Len(lines(split_result)) :
                Len(lines(split_result)[i]) <= line_width
        /\ pc = "render" => total_len + (Len(list) - 1) <= line_width
        /\ AfterRender =>
             /\ total_len <= line_width
             /\ Len(LastLine) - total_len <= line_width - total_len
             /\ Len(list) >= 2 =>
                    gaps_info.body_gaps_size * (Len(list) - 2)
                        + gaps_info.tail_gap_size <= line_width - total_len

C10_Witness ==
    /\ AfterRender
    /\ Len(list) >= 4
    /\ Len(LastLine) < line_width
    /\ (line_width - total_len) % (Len(list) - 1) # 0

====
